---- MODULE Spec2Model ----
(***************************************************************************)
(* One run of the analysis script src/app.py: fetch the price history,     *)
(* score it (technical strategy, smart money, news sentiment), blend the   *)
(* three scores, pick the recommendation and the price levels.             *)
(*                                                                         *)
(* What the outside world hands to the run is fixed when the run starts    *)
(* and kept in three variables the script only reads:                      *)
(*   history   what yfinance's history() gives (bars, none, or a failure)  *)
(*   lib       what the indicator library (pandas / pandas_ta) computes    *)
(*             for that history, at the latest and the previous bar        *)
(*   newsfeed  what stock_obj.news gives, each headline with the polarity  *)
(*             TextBlob finds in its title                                 *)
(* The indicator values are inputs of the script, not functions of the     *)
(* bars here: the library is not part of the repository.                   *)
(*                                                                         *)
(* Numbers.  A Python value is a record [k, v]: k = "num" with the number  *)
(* v, k = "NaN" (a float NaN: every comparison with it is False) or        *)
(* k = "None" (comparing it with a number raises TypeError).  Reals are    *)
(* kept exact in fixed point: a polarity in tenths, sent_score in 1/Scale, *)
(* total_score in 1/(10*Scale), buy_zone in hundredths of the price unit.  *)
(***************************************************************************)
EXTENDS Integers, Sequences, FiniteSets

VARIABLES history, lib, newsfeed,
          pc, data,
          tech_score, tech_reasons, sm_score, sm_signals,
          sent_score, analyzed_news,
          current_price, total_score,
          recommendation, rationale,
          recent_high, recent_low, buy_zone

vars == <<history, lib, newsfeed, pc, data, tech_score, tech_reasons,
          sm_score, sm_signals, sent_score, analyzed_news, current_price,
          total_score, recommendation, rationale, recent_high, recent_low,
          buy_zone>>

(* ------------------------------ bounds -------------------------------- *)

\* Prices of the modelled bars are 1..MaxPrice.
MaxPrice == 3
\* The longest bar series of the levels specification (more than the 20-bar window).
MaxBars == 22
\* The longest headline list of the sentiment specification (more than 5).
MaxNews == 6

(* --------------------------- Python values ---------------------------- *)

None == [k |-> "None", v |-> 0]
NaN == [k |-> "NaN", v |-> 0]
Num(x) == [k |-> "num", v |-> x]

\* a > b and a < b, a <= b on floats: False when either side is NaN.
Gt(a, b) == a.k = "num" /\ b.k = "num" /\ a.v > b.v
Lt(a, b) == a.k = "num" /\ b.k = "num" /\ a.v < b.v
Le(a, b) == a.k = "num" /\ b.k = "num" /\ a.v <= b.v

Max2(a, b) == IF a >= b THEN a ELSE b
Min2(a, b) == IF a <= b THEN a ELSE b

\* The least common multiple of the possible headline counts 1..5.
Scale == 3 * 4 * 5

(* ------------------------- technical strategy ------------------------- *)

\* Appending one rule's outcome to the running (score, reasons).
Fire(acc, delta, label) ==
    [score |-> acc.score + delta, reasons |-> Append(acc.reasons, label)]

\* A clamp that forgets the upper bound: max(0, score).
ClampLowerOnly(score) == Max2(0, score)

\* max(0, min(100, score))
Clamp(score) == Max2(0, Min2(100, score))

\* A. latest['SMA_Long'] is not None and latest['Close'] > latest['SMA_Long']
TrendUp(close, ta) == ta.SMA_Long.k # "None" /\ Gt(Num(close), ta.SMA_Long)

\* The oversold test with <= in place of <.
RsiOversoldInclusive(ta) == Le(ta.RSI, Num(30))

\* B. latest['RSI'] < 30 / elif latest['RSI'] > 70
RsiOversold(ta) == Lt(ta.RSI, Num(30))
RsiOverbought(ta) == Gt(ta.RSI, Num(70))

\* A cross that needs the previous line strictly below its signal.
MacdStrictCross(ta) ==
    /\ ta.macd.present
    /\ Gt(ta.macd.line, ta.macd.signal)
    /\ Lt(ta.macd.prev_line, ta.macd.prev_signal)

\* C. 'MACD_12_26_9' in df.columns and
\*    macd_line > macd_signal and prev_macd_line <= prev_macd_signal
MacdGoldenCross(ta) ==
    /\ ta.macd.present
    /\ Gt(ta.macd.line, ta.macd.signal)
    /\ Le(ta.macd.prev_line, ta.macd.prev_signal)

\* D. 'BBL_20_2.0' in df.columns and latest['Close'] < latest['BBL_20_2.0']
BelowLowerBand(close, ta) == ta.bb.present /\ Lt(Num(close), ta.bb.BBL)

\* The trend rule without its "is not None" guard: a None SMA_Long raises too.
TechRaisesUnguarded(df, ta) ==
    Len(df) < 2 \/ ta.RSI.k = "None" \/ ta.SMA_Long.k = "None"

\* The statements that raise: prev = df.iloc[-2] on a one-bar frame
\* (IndexError) and latest['RSI'] < 30 on a None RSI (TypeError).
TechRaises(df, ta) == Len(df) < 2 \/ ta.RSI.k = "None"

\* The rules in the order the code evaluates them, from the base score 50.
TechRules(df, ta) ==
    LET close == df[Len(df)].Close
        a0 == [score |-> 50, reasons |-> <<>>]
        a1 == IF TrendUp(close, ta) THEN Fire(a0, 10, "PRICE_ABOVE_LONG_SMA") ELSE a0
        a2 == IF RsiOversold(ta) THEN Fire(a1, 20, "RSI_OVERSOLD")
              ELSE IF RsiOverbought(ta) THEN Fire(a1, -20, "RSI_OVERBOUGHT")
              ELSE a1
        a3 == IF MacdGoldenCross(ta) THEN Fire(a2, 15, "MACD_GOLDEN_CROSS") ELSE a2
        a4 == IF BelowLowerBand(close, ta) THEN Fire(a3, 15, "BELOW_LOWER_BAND") ELSE a3
    IN  a4

calculate_technical_strategy(df, ta) ==
    LET r == TechRules(df, ta)
    IN  [score |-> Clamp(r.score), reasons |-> r.reasons]

(* ----------------------------- smart money ---------------------------- *)

\* df['RVOL'] = df['Volume'] / df['Vol_SMA'], a float: NaN when the mean is
\* NaN (fewer than 50 bars) or the division is 0/0, else the exact ratio
\* n/d (infinite when d = 0 < n).
RVOL(volume, ta) ==
    IF ta.Vol_SMA.k # "num" \/ (ta.Vol_SMA.v = 0 /\ volume = 0)
    THEN [k |-> "NaN", n |-> 0, d |-> 1]
    ELSE [k |-> "num", n |-> volume, d |-> ta.Vol_SMA.v]

\* latest['RVOL'] > 1.5
RvolSpike(volume, ta) ==
    LET r == RVOL(volume, ta)
    IN  r.k = "num" /\ (IF r.d = 0 THEN r.n > 0 ELSE 2 * r.n > 3 * r.d)

VolumeSpikeUp(bar, ta) == RvolSpike(bar.Volume, ta) /\ bar.Close > bar.Open
VolumeSpikeDown(bar, ta) == RvolSpike(bar.Volume, ta) /\ bar.Close < bar.Open

\* latest['OBV'] > latest['OBV_EMA']
ObvAboveEma(ta) == Gt(ta.OBV, ta.OBV_EMA)

\* latest['MFI'] > 80 / elif latest['MFI'] < 20
MfiOverheated(ta) == Gt(ta.MFI, Num(80))
MfiOversold(ta) == Lt(ta.MFI, Num(20))

\* The comparisons that raise TypeError: OBV_EMA or MFI is None (pandas_ta
\* gives None for a series shorter than the indicator's length).
SmartMoneyRaises(ta) ==
    ta.OBV.k = "None" \/ ta.OBV_EMA.k = "None" \/ ta.MFI.k = "None"

SmartMoneyRules(df, ta) ==
    LET latest == df[Len(df)]
        a0 == [score |-> 50, reasons |-> <<>>]
        a1 == IF VolumeSpikeUp(latest, ta) THEN Fire(a0, 15, "VOLUME_SPIKE_UP")
              ELSE IF VolumeSpikeDown(latest, ta) THEN Fire(a0, -15, "VOLUME_SPIKE_DOWN")
              ELSE a0
        a2 == IF ObvAboveEma(ta) THEN Fire(a1, 10, "OBV_ABOVE_EMA") ELSE a1
        a3 == IF MfiOverheated(ta) THEN Fire(a2, -10, "MFI_OVERHEATED")
              ELSE IF MfiOversold(ta) THEN Fire(a2, 10, "MFI_OVERSOLD")
              ELSE a2
    IN  a3

calculate_smart_money(df, ta) ==
    LET r == SmartMoneyRules(df, ta)
    IN  [score |-> Clamp(r.score), reasons |-> r.reasons]

(* ------------------------------ sentiment ----------------------------- *)

\* The whole list in place of its first five.
WholeList(items) == items

\* news_list[:5]
FirstFive(items) == SubSeq(items, 1, Min2(5, Len(items)))

RECURSIVE SumSeq(_)
SumSeq(s) == IF s = <<>> THEN 0 ELSE s[1] + SumSeq(Tail(s))

\* polarity > 0.1 / elif polarity < -0.1, the polarity in tenths
SentimentLabel(polarity) ==
    IF polarity > 1 THEN "POSITIVE"
    ELSE IF polarity < -1 THEN "NEGATIVE"
    ELSE "NEUTRAL"

\* (sentiment_score / count) * 100, in 1/Scale: the polarities are tenths.
FinalScore(polarities) ==
    (SumSeq(polarities) * 10 * Scale) \div Len(polarities)

\* analyze_sentiment(news_list): the score and the analysed headlines.
analyze_sentiment(feed) ==
    IF (~feed.present) \/ feed.items = <<>>
    THEN [score |-> 0, analyzed |-> <<>>]
    ELSE LET five == FirstFive(feed.items)
         IN  [score |-> FinalScore(five),
              analyzed |-> [i \in 1..Len(five) |->
                              [score |-> five[i],
                               sentiment |-> SentimentLabel(five[i])]]]

(* ------------------------ composite and levels ------------------------ *)

\* The blend with the sum clamped into [0, 100].
TotalScoreClamped(tech, sm, sent) ==
    Max2(0, Min2(100 * 10 * Scale,
                 tech * 5 * Scale + sm * 3 * Scale + (sent + 50 * Scale) * 2))

\* The blend with the sentiment taken without its +50 shift.
TotalScoreNoShift(tech, sm, sent) ==
    tech * 5 * Scale + sm * 3 * Scale + sent * 2

\* (tech_score * 0.5) + (sm_score * 0.3) + (sent_score + 50) * 0.2,
\* in 1/(10*Scale); sent in 1/Scale.
TotalScore(tech, sm, sent) ==
    tech * 5 * Scale + sm * 3 * Scale + (sent + 50 * Scale) * 2

\* total_score >= threshold, the threshold a whole number of points.
AtLeast(total, points) == total >= points * 10 * Scale

\* if total_score >= 70 / elif total_score >= 50 / else
Tier(total) ==
    IF AtLeast(total, 70) THEN "StrongBuy"
    ELSE IF AtLeast(total, 50) THEN "Neutral"
    ELSE "Avoid"

\* The whole series in place of its last 20 bars.
AllBars(df) == df

\* data['High'].tail(20)
TailBars(df) == SubSeq(df, Max2(1, Len(df) - 20 + 1), Len(df))

RECURSIVE MaxHigh(_)
MaxHigh(s) == IF Len(s) = 1 THEN s[1].High ELSE Max2(s[1].High, MaxHigh(Tail(s)))

RECURSIVE MinLow(_)
MinLow(s) == IF Len(s) = 1 THEN s[1].Low ELSE Min2(s[1].Low, MinLow(Tail(s)))

RecentHigh(df) == MaxHigh(TailBars(df))
RecentLow(df) == MinLow(TailBars(df))

\* A buy zone only from the StrongBuy threshold on.
BuyZoneFromSeventy(total, price) == IF AtLeast(total, 70) THEN Num(price * 98) ELSE None

\* if total_score >= 60: buy_zone = current_price * 0.98 (in hundredths)
BuyZone(total, price) == IF AtLeast(total, 60) THEN Num(price * 98) ELSE None

\* The smart-money signals ahead of the technical ones.
SmartMoneyFirst(tech, sm) == sm \o tech

\* for r in tech_reasons + sm_signals
Rationale(tech, sm) == tech \o sm

(* ------------------------------ the run ------------------------------- *)

\* get_stock_data: (df, stock), or (None, None) when history() raises or
\* the frame is empty.  data = <<>> stands for None: an empty frame is
\* never kept.
GetStockData ==
    /\ pc = "start"
    /\ IF history.ok /\ history.bars # <<>>
       THEN data' = history.bars /\ pc' = "technical"
       ELSE data' = <<>> /\ pc' = "no_data"
    /\ UNCHANGED <<history, lib, newsfeed, tech_score, tech_reasons, sm_score,
                   sm_signals, sent_score, analyzed_news, current_price,
                   total_score, recommendation, rationale, recent_high,
                   recent_low, buy_zone>>

\* tech_score, tech_reasons, data = calculate_technical_strategy(data);
\* an exception ends the run in the script's except block.
CalculateTechnicalStrategy ==
    /\ pc = "technical"
    /\ IF TechRaises(data, lib)
       THEN pc' = "error" /\ UNCHANGED <<tech_score, tech_reasons>>
       ELSE LET r == calculate_technical_strategy(data, lib)
            IN  /\ tech_score' = Num(r.score)
                /\ tech_reasons' = r.reasons
                /\ pc' = "smart_money"
    /\ UNCHANGED <<history, lib, newsfeed, data, sm_score, sm_signals,
                   sent_score, analyzed_news, current_price, total_score,
                   recommendation, rationale, recent_high, recent_low, buy_zone>>

\* sm_score, sm_signals = calculate_smart_money(data)
CalculateSmartMoney ==
    /\ pc = "smart_money"
    /\ IF SmartMoneyRaises(lib)
       THEN pc' = "error" /\ UNCHANGED <<sm_score, sm_signals>>
       ELSE LET r == calculate_smart_money(data, lib)
            IN  /\ sm_score' = Num(r.score)
                /\ sm_signals' = r.reasons
                /\ pc' = "sentiment"
    /\ UNCHANGED <<history, lib, newsfeed, data, tech_score, tech_reasons,
                   sent_score, analyzed_news, current_price, total_score,
                   recommendation, rationale, recent_high, recent_low, buy_zone>>

\* news = stock_obj.news; sent_score, analyzed_news = analyze_sentiment(news)
AnalyzeSentiment ==
    /\ pc = "sentiment"
    /\ LET r == analyze_sentiment(newsfeed)
       IN  /\ sent_score' = Num(r.score)
           /\ analyzed_news' = r.analyzed
    /\ pc' = "dashboard"
    /\ UNCHANGED <<history, lib, newsfeed, data, tech_score, tech_reasons,
                   sm_score, sm_signals, current_price, total_score,
                   recommendation, rationale, recent_high, recent_low, buy_zone>>

\* current_price = data['Close'].iloc[-1]; total_score = ...
Dashboard ==
    /\ pc = "dashboard"
    /\ current_price' = Num(data[Len(data)].Close)
    /\ total_score' = Num(TotalScore(tech_score.v, sm_score.v, sent_score.v))
    /\ pc' = "recommend"
    /\ UNCHANGED <<history, lib, newsfeed, data, tech_score, tech_reasons,
                   sm_score, sm_signals, sent_score, analyzed_news,
                   recommendation, rationale, recent_high, recent_low, buy_zone>>

\* with col_rec: the tier's message, then tech_reasons + sm_signals
Recommend ==
    /\ pc = "recommend"
    /\ recommendation' = Tier(total_score.v)
    /\ rationale' = Rationale(tech_reasons, sm_signals)
    /\ pc' = "entry"
    /\ UNCHANGED <<history, lib, newsfeed, data, tech_score, tech_reasons,
                   sm_score, sm_signals, sent_score, analyzed_news,
                   current_price, total_score, recent_high, recent_low, buy_zone>>

\* with col_entry: the 20-bar extremes and, from 60 points, the buy zone
EntryPoints ==
    /\ pc = "entry"
    /\ recent_high' = Num(RecentHigh(data))
    /\ recent_low' = Num(RecentLow(data))
    /\ buy_zone' = BuyZone(total_score.v, current_price.v)
    /\ pc' = "done"
    /\ UNCHANGED <<history, lib, newsfeed, data, tech_score, tech_reasons,
                   sm_score, sm_signals, sent_score, analyzed_news,
                   current_price, total_score, recommendation, rationale>>

Next ==
    \/ GetStockData
    \/ CalculateTechnicalStrategy
    \/ CalculateSmartMoney
    \/ AnalyzeSentiment
    \/ Dashboard
    \/ Recommend
    \/ EntryPoints

(* ----------------------------- the inputs ----------------------------- *)

Bar(o, h, l, c, v) == [Open |-> o, High |-> h, Low |-> l, Close |-> c, Volume |-> v]

\* A quiet bar: every price 2, volume 3.
FlatBar == Bar(2, 2, 2, 2, 3)

\* A latest bar that opened at 2 and closed at c on volume v.
DayBar(c, v) == Bar(2, Max2(2, c), Min2(2, c), c, v)

Fetched(bars) == [ok |-> TRUE, bars |-> bars]
FetchFailed == [ok |-> FALSE, bars |-> <<>>]

Macd(l, s, pl, ps) ==
    [present |-> TRUE, line |-> l, signal |-> s, prev_line |-> pl, prev_signal |-> ps]
NoMacd == [present |-> FALSE, line |-> NaN, signal |-> NaN,
           prev_line |-> NaN, prev_signal |-> NaN]
Band(b) == [present |-> TRUE, BBL |-> b]
NoBand == [present |-> FALSE, BBL |-> NaN]

Feed(items) == [present |-> TRUE, items |-> items]
NoFeed == [present |-> FALSE, items |-> <<>>]

\* The start of a run over the given histories, indicator values and feeds.
InitRun(H, L, N) ==
    /\ history \in H
    /\ lib \in L
    /\ newsfeed \in N
    /\ pc = "start"
    /\ data = <<>>
    /\ tech_score = None /\ tech_reasons = <<>>
    /\ sm_score = None /\ sm_signals = <<>>
    /\ sent_score = None /\ analyzed_news = <<>>
    /\ current_price = None /\ total_score = None
    /\ recommendation = "" /\ rationale = <<>>
    /\ recent_high = None /\ recent_low = None /\ buy_zone = None

\* Every combination of rule triggers of the two scorers (with None and NaN
\* among the indicator values), on a two-bar history, with five feeds
\* (none, and mean polarities 1, -1, 0.5, -0.5).
JointHistories ==
    {FetchFailed, Fetched(<<>>), Fetched(<<FlatBar>>)}
    \cup {Fetched(<<FlatBar, DayBar(c, v)>>) : c \in 1..MaxPrice, v \in {3, 4}}
JointLib ==
    [SMA_Long : {None, Num(0), Num(MaxPrice)},
     RSI : {None, NaN, Num(29), Num(30), Num(70), Num(71)},
     macd : {NoMacd, Macd(Num(1), Num(0), Num(0), Num(0)),
             Macd(Num(0), Num(0), Num(0), Num(0))},
     bb : {NoBand, Band(Num(MaxPrice + 1))},
     Vol_SMA : {NaN, Num(2)},
     OBV : {Num(1)},
     OBV_EMA : {None, Num(0), Num(1)},
     MFI : {None, NaN, Num(19), Num(20), Num(80), Num(81)}]
JointFeeds ==
    {NoFeed, Feed(<<10, 10>>), Feed(<<-10>>), Feed(<<10, 0>>), Feed(<<-10, 0>>)}

Init == InitRun(JointHistories, JointLib, JointFeeds)
Spec == Init /\ [][Next]_vars

\* The technical scorer's inputs in full: absent, NaN and numeric values of
\* every indicator it reads, every MACD pair over {NaN, 0, 1}.
MacdValues == {NaN, Num(0), Num(1)}
TechHistories ==
    {Fetched(<<FlatBar>>)}
    \cup {Fetched(<<FlatBar, DayBar(c, 3)>>) : c \in 1..MaxPrice}
TechLib ==
    [SMA_Long : {None, NaN, Num(1), Num(MaxPrice)},
     RSI : {None, NaN, Num(29), Num(30), Num(70), Num(71)},
     macd : {NoMacd} \cup {Macd(l, s, pl, ps) :
                             l \in MacdValues, s \in MacdValues,
                             pl \in MacdValues, ps \in MacdValues},
     bb : {NoBand, Band(NaN), Band(Num(2)), Band(Num(MaxPrice + 1))},
     Vol_SMA : {NaN},
     OBV : {Num(1)},
     OBV_EMA : {Num(1)},
     MFI : {Num(50)}]
TechFeeds == {Feed(<<0>>)}

InitTech == InitRun(TechHistories, TechLib, TechFeeds)
SpecTech == InitTech /\ [][Next]_vars

\* The headline lists: no feed, and every list of up to MaxNews polarities
\* among -1.0, 0.0, 0.4 and 1.0.
Polarities == {-10, 0, 4, 10}
NewsLists == UNION {[1..n -> Polarities] : n \in 0..MaxNews}
QuietLib ==
    [SMA_Long : {Num(2)}, RSI : {Num(50)}, macd : {NoMacd}, bb : {NoBand},
     Vol_SMA : {Num(2)}, OBV : {Num(1)}, OBV_EMA : {Num(1)}, MFI : {Num(50)}]
NewsHistories == {Fetched(<<FlatBar, FlatBar>>)}
NewsFeeds == {NoFeed} \cup {Feed(items) : items \in NewsLists}

InitNews == InitRun(NewsHistories, QuietLib, NewsFeeds)
SpecNews == InitNews /\ [][Next]_vars

\* The bar series: up to MaxBars quiet bars, one of them (anywhere) with
\* any high, low and close of 1..MaxPrice.
OddBars == {Bar(2, h, l, c, 3) : h \in 1..MaxPrice, l \in 1..MaxPrice, c \in 1..MaxPrice}
SeriesWith(n, i, b) == [k \in 1..n |-> IF k = i THEN b ELSE FlatBar]
LevelHistories ==
    {Fetched(SeriesWith(n, i, b)) : n \in 1..MaxBars, i \in 1..MaxBars, b \in OddBars}
LevelFeeds == {NoFeed}

InitLevels == InitRun(LevelHistories, QuietLib, LevelFeeds)
SpecLevels == InitLevels /\ [][Next]_vars

(* ------------------------------ properties ---------------------------- *)

Has(seq, x) == \E i \in 1..Len(seq) : seq[i] = x

TechReturned == tech_score.k = "num"
SmartMoneyReturned == sm_score.k = "num"
LatestBar == data[Len(data)]

AllTechBonuses ==
    <<"PRICE_ABOVE_LONG_SMA", "RSI_OVERSOLD", "MACD_GOLDEN_CROSS", "BELOW_LOWER_BAND">>
AllSmartMoneyBonuses == <<"VOLUME_SPIKE_UP", "OBV_ABOVE_EMA", "MFI_OVERSOLD">>
AllTechPenalties == <<"RSI_OVERBOUGHT">>
AllSmartMoneyPenalties == <<"VOLUME_SPIKE_DOWN", "MFI_OVERHEATED">>

\* C1: whatever rules fire, the score calculate_technical_strategy returns
\* and the score calculate_smart_money returns are both within 0..100.
C1_ScoresWithinBounds ==
    /\ TechReturned => tech_score.v \in 0..100
    /\ SmartMoneyReturned => sm_score.v \in 0..100

\* Every bonus rule of both scorers fired together: the technical sum, 110,
\* came back as 100.
C1_Witness ==
    /\ TechReturned /\ SmartMoneyReturned
    /\ tech_reasons = AllTechBonuses /\ tech_score.v = 100
    /\ sm_signals = AllSmartMoneyBonuses

\* C3: the composite is tech*0.5 + sm*0.3 + (sent+50)*0.2, unclamped, for
\* the scores in their ranges, and the tier shown is StrongBuy exactly from
\* 70, Neutral exactly in [50, 70), Avoid exactly below 50; 80/60/50 gives
\* 78 and StrongBuy, 40/40/-50 gives 32 and Avoid.
C3_CompositeAndTier ==
    pc \in {"entry", "done"} =>
        LET t == tech_score.v
            m == sm_score.v
            n == sent_score.v
            c == total_score.v
            unit == 10 * Scale
        IN  /\ t \in 0..100 /\ m \in 0..100
            /\ n >= -100 * Scale /\ n <= 100 * Scale
            /\ c = (5 * t + 3 * m) * Scale + 2 * n + 100 * Scale
            /\ recommendation \in {"StrongBuy", "Neutral", "Avoid"}
            /\ recommendation = "StrongBuy" <=> c >= 70 * unit
            /\ recommendation = "Neutral" <=> (c >= 50 * unit /\ c < 70 * unit)
            /\ recommendation = "Avoid" <=> c < 50 * unit
            /\ (t = 80 /\ m = 60 /\ n = 50 * Scale) =>
                   (c = 78 * unit /\ recommendation = "StrongBuy")
            /\ (t = 40 /\ m = 40 /\ n = -50 * Scale) =>
                   (c = 32 * unit /\ recommendation = "Avoid")

\* The spec's first example, reached by a run: 80, 60 and 50 give 78.
C3_Witness ==
    /\ pc = "done"
    /\ tech_score.v = 80 /\ sm_score.v = 60 /\ sent_score.v = 50 * Scale
    /\ total_score.v = 78 * 10 * Scale /\ recommendation = "StrongBuy"

\* C4: a suggested entry is produced exactly when the composite is at least
\* 60, and is then 0.98 of the current price; so every StrongBuy carries
\* one and no Avoid does.
C4_EntryFromSixty ==
    pc = "done" =>
        /\ buy_zone.k = "num" <=> total_score.v >= 60 * 10 * Scale
        /\ buy_zone.k = "num" => buy_zone.v = 98 * LatestBar.Close
        /\ recommendation = "StrongBuy" => buy_zone.k = "num"
        /\ recommendation = "Avoid" => buy_zone.k # "num"

\* A Neutral result whose composite is exactly 60, with its entry.
C4_Witness ==
    /\ pc = "done" /\ recommendation = "Neutral"
    /\ total_score.v = 60 * 10 * Scale
    /\ buy_zone.k = "num"

BestCase ==
    /\ tech_reasons = AllTechBonuses /\ sm_signals = AllSmartMoneyBonuses
    /\ sent_score.v = 100 * Scale
WorstCase ==
    /\ tech_reasons = AllTechPenalties /\ sm_signals = AllSmartMoneyPenalties
    /\ sent_score.v = -100 * Scale

\* C5 as stated: with every bonus rule fired and sentiment 100 the
\* composite is 110, and with every penalty rule fired and sentiment -100
\* it is -10.
C5_ExtremesAsClaimed ==
    pc = "done" =>
        /\ BestCase => total_score.v = 110 * 10 * Scale
        /\ WorstCase => total_score.v = -10 * 10 * Scale

\* C5 amended: the composite of the scorers' outputs stays within
\* [12.5, 105.5]; it is 105.5 with every bonus rule fired and sentiment 100
\* and 12.5 with every penalty rule fired and sentiment -100 (the technical
\* score spans 30..100, the smart-money score 25..85).
C5_CompositeRange ==
    pc = "done" =>
        /\ total_score.v >= 125 * Scale /\ total_score.v <= 1055 * Scale
        /\ tech_score.v >= 30 /\ sm_score.v >= 25 /\ sm_score.v <= 85
        /\ BestCase => total_score.v = 1055 * Scale
        /\ WorstCase => total_score.v = 125 * Scale

\* The best case, reached: 100, 85 and 100 blended to 105.5.
C5_Witness ==
    /\ pc = "done" /\ BestCase
    /\ tech_score.v = 100 /\ sm_score.v = 85
    /\ total_score.v = 1055 * Scale

\* C7: no scorer emits both branches of one rule (RSI oversold/overbought,
\* MFI overheated/oversold, volume spike up/down), and RSI in [30, 70],
\* MFI in [20, 80] or close = open emits neither branch of its rule.
C7_BranchesExclusive ==
    /\ TechReturned =>
        /\ ~(Has(tech_reasons, "RSI_OVERSOLD") /\ Has(tech_reasons, "RSI_OVERBOUGHT"))
        /\ (lib.RSI.k = "num" /\ lib.RSI.v >= 30 /\ lib.RSI.v <= 70) =>
               (~Has(tech_reasons, "RSI_OVERSOLD") /\ ~Has(tech_reasons, "RSI_OVERBOUGHT"))
    /\ SmartMoneyReturned =>
        /\ ~(Has(sm_signals, "MFI_OVERHEATED") /\ Has(sm_signals, "MFI_OVERSOLD"))
        /\ ~(Has(sm_signals, "VOLUME_SPIKE_UP") /\ Has(sm_signals, "VOLUME_SPIKE_DOWN"))
        /\ (lib.MFI.k = "num" /\ lib.MFI.v >= 20 /\ lib.MFI.v <= 80) =>
               (~Has(sm_signals, "MFI_OVERHEATED") /\ ~Has(sm_signals, "MFI_OVERSOLD"))
        /\ LatestBar.Close = LatestBar.Open =>
               (~Has(sm_signals, "VOLUME_SPIKE_UP") /\ ~Has(sm_signals, "VOLUME_SPIKE_DOWN"))

\* RSI exactly 30, MFI exactly 80 and a flat day on twice the mean volume:
\* both scorers returned and none of the three rules spoke.
C7_Witness ==
    /\ TechReturned /\ SmartMoneyReturned
    /\ lib.RSI = Num(30) /\ lib.MFI = Num(80)
    /\ LatestBar.Close = LatestBar.Open /\ LatestBar.Volume = 2 * lib.Vol_SMA.v
    /\ ~Has(tech_reasons, "RSI_OVERSOLD") /\ ~Has(sm_signals, "MFI_OVERHEATED")
    /\ ~Has(sm_signals, "VOLUME_SPIKE_UP")

SignalDelta(label) ==
    CASE label = "PRICE_ABOVE_LONG_SMA" -> 10
      [] label = "RSI_OVERSOLD" -> 20
      [] label = "RSI_OVERBOUGHT" -> -20
      [] label = "MACD_GOLDEN_CROSS" -> 15
      [] label = "BELOW_LOWER_BAND" -> 15
      [] label = "VOLUME_SPIKE_UP" -> 15
      [] label = "VOLUME_SPIKE_DOWN" -> -15
      [] label = "OBV_ABOVE_EMA" -> 10
      [] label = "MFI_OVERHEATED" -> -10
      [] label = "MFI_OVERSOLD" -> 10

SignalRank(label) ==
    CASE label = "PRICE_ABOVE_LONG_SMA" -> 1
      [] label \in {"RSI_OVERSOLD", "RSI_OVERBOUGHT"} -> 2
      [] label = "MACD_GOLDEN_CROSS" -> 3
      [] label = "BELOW_LOWER_BAND" -> 4
      [] label \in {"VOLUME_SPIKE_UP", "VOLUME_SPIKE_DOWN"} -> 5
      [] label = "OBV_ABOVE_EMA" -> 6
      [] label \in {"MFI_OVERHEATED", "MFI_OVERSOLD"} -> 7

RECURSIVE DeltaSum(_)
DeltaSum(signals) ==
    IF signals = <<>> THEN 0 ELSE SignalDelta(signals[1]) + DeltaSum(Tail(signals))

InRuleOrder(signals, ranks) ==
    /\ \A i \in 1..Len(signals) : SignalRank(signals[i]) \in ranks
    /\ \A i \in 1..Len(signals), j \in 1..Len(signals) :
           i < j => SignalRank(signals[i]) < SignalRank(signals[j])

Bounded(x) == IF x < 0 THEN 0 ELSE IF x > 100 THEN 100 ELSE x

\* C10: each scorer's score is 50 plus the fixed deltas of exactly the
\* signals it returned, clamped into [0, 100]; the signals are in rule
\* order; the rationale shown is the technical signals followed by the
\* smart-money signals.
C10_ScoreIsClampedSum ==
    /\ TechReturned =>
        /\ tech_score.v = Bounded(50 + DeltaSum(tech_reasons))
        /\ InRuleOrder(tech_reasons, 1..4)
    /\ SmartMoneyReturned =>
        /\ sm_score.v = Bounded(50 + DeltaSum(sm_signals))
        /\ InRuleOrder(sm_signals, 5..7)
    /\ pc \in {"entry", "done"} =>
        /\ Len(rationale) = Len(tech_reasons) + Len(sm_signals)
        /\ \A i \in 1..Len(tech_reasons) : rationale[i] = tech_reasons[i]
        /\ \A i \in 1..Len(sm_signals) :
               rationale[Len(tech_reasons) + i] = sm_signals[i]

\* A run that showed four technical signals, then three smart-money ones.
C10_Witness ==
    /\ pc = "done"
    /\ Len(tech_reasons) = 4 /\ Len(sm_signals) = 3
    /\ rationale[1] = "PRICE_ABOVE_LONG_SMA" /\ rationale[7] = "MFI_OVERSOLD"

\* What the technical rules other than the MACD rule add, read off the
\* indicator values themselves.
IsNum(x) == x.k = "num"
TrendPoints ==
    IF IsNum(lib.SMA_Long) /\ LatestBar.Close > lib.SMA_Long.v THEN 10 ELSE 0
RsiPoints ==
    IF IsNum(lib.RSI) /\ lib.RSI.v < 30 THEN 20
    ELSE IF IsNum(lib.RSI) /\ lib.RSI.v > 70 THEN -20
    ELSE 0
BandPoints ==
    IF lib.bb.present /\ IsNum(lib.bb.BBL) /\ LatestBar.Close < lib.bb.BBL.v
    THEN 15 ELSE 0
MacdAllNumbers ==
    /\ lib.macd.present
    /\ IsNum(lib.macd.line) /\ IsNum(lib.macd.signal)
    /\ IsNum(lib.macd.prev_line) /\ IsNum(lib.macd.prev_signal)
UpwardCross ==
    /\ MacdAllNumbers
    /\ lib.macd.line.v > lib.macd.signal.v
    /\ lib.macd.prev_line.v <= lib.macd.prev_signal.v
DownwardCross ==
    /\ MacdAllNumbers
    /\ lib.macd.line.v < lib.macd.signal.v
    /\ lib.macd.prev_line.v >= lib.macd.prev_signal.v
FrozenAtEquality ==
    /\ MacdAllNumbers
    /\ lib.macd.line.v = lib.macd.signal.v
    /\ lib.macd.prev_line.v = lib.macd.prev_signal.v

TechStepDone == pc \notin {"start", "no_data", "technical"}

\* Fewer bars than the long window reach the scorer as an SMA_Long that is
\* None (or NaN); the other indicators it needs can be absent or NaN too.
LongAverageMissing == ~IsNum(lib.SMA_Long)
TechDataMissing ==
    \/ LongAverageMissing
    \/ ~IsNum(lib.RSI)
    \/ ~MacdAllNumbers
    \/ ~(lib.bb.present /\ IsNum(lib.bb.BBL))

Polarity(i) == IF i <= Len(newsfeed.items) THEN newsfeed.items[i] ELSE 0
SentimentDone == pc \in {"dashboard", "recommend", "entry", "done"}

\* C8: analyze_sentiment returns exactly 0, without failing, for a missing
\* or empty headline list; otherwise 100 times the mean polarity of the
\* first min(5, n) headlines, which is within [-100, 100] and does not
\* depend on the headlines after the fifth.
C8_MeanOfFirstFive ==
    SentimentDone =>
        LET n == Len(newsfeed.items)
            count == IF n < 5 THEN n ELSE 5
            sum == Polarity(1) + Polarity(2) + Polarity(3) + Polarity(4) + Polarity(5)
        IN  /\ sent_score.k = "num"
            /\ (~newsfeed.present \/ n = 0) => (sent_score.v = 0 /\ analyzed_news = <<>>)
            /\ (newsfeed.present /\ n > 0) =>
                /\ sent_score.v * count = sum * 10 * Scale
                /\ sent_score.v >= -100 * Scale /\ sent_score.v <= 100 * Scale
                /\ Len(analyzed_news) = count
                /\ \A i \in 1..count : analyzed_news[i].score = newsfeed.items[i]

\* Six headlines, the first five at 1.0 and the sixth at -1.0: the score is 100.
C8_Witness ==
    /\ SentimentDone /\ newsfeed.present
    /\ Len(newsfeed.items) = 6 /\ newsfeed.items[6] = -10
    /\ \A i \in 1..5 : newsfeed.items[i] = 10
    /\ sent_score.v = 100 * Scale

(* levels *)

LastTwenty == {k \in 1..Len(data) : k > Len(data) - 20}

\* C9: resistance is the highest high and support the lowest low of exactly
\* the last min(20, n) bars, whatever the older bars hold; so when every bar
\* has low <= close <= high, support <= latest close <= resistance.
C9_LevelsOverLastTwenty ==
    pc = "done" =>
        /\ recent_high.k = "num" /\ recent_low.k = "num"
        /\ \A k \in LastTwenty : data[k].High <= recent_high.v
        /\ \E k \in LastTwenty : data[k].High = recent_high.v
        /\ \A k \in LastTwenty : data[k].Low >= recent_low.v
        /\ \E k \in LastTwenty : data[k].Low = recent_low.v
        /\ (\A k \in 1..Len(data) :
                data[k].Low <= data[k].Close /\ data[k].Close <= data[k].High) =>
               (recent_low.v <= LatestBar.Close /\ LatestBar.Close <= recent_high.v)

\* More than 20 bars, the oldest one with a higher high and a lower low
\* than any of the last 20: neither level moved.
C9_Witness ==
    /\ pc = "done" /\ Len(data) > 20
    /\ data[1].High > recent_high.v /\ data[1].Low < recent_low.v

====
